---- MODULE Spec2Model ----
(***************************************************************************)
(* Model of main.py: one process run loads the checkpoint file             *)
(* (load_config), polls the search API page by page with bounded retries   *)
(* (main) and commits the advanced checkpoint with a backup copy           *)
(* (__main__).  Process runs follow each other on the same two files.      *)
(*                                                                         *)
(* Time is counted in ticks since 1900-01-01T00:00:00Z; a formatted        *)
(* timestamp "YYYY-MM-DDTHH:MM:SSZ" is the whole number of seconds since   *)
(* that instant (the text form orders and compares exactly as this number  *)
(* does for four-digit years).                                             *)
(***************************************************************************)
EXTENDS Integers, Sequences, FiniteSets, TLC

\* ---------------------------------------------------------------- bounds
\* clock ticks per second (datetime.now() is finer than the text format)
TicksPerSec == 2
\* ticks that may elapse over the whole behaviour
MaxElapsed == 1
\* items the API puts on one page
MaxItems == 1
\* pages of the result set the API serves for one query
MaxPages == 2

\* ------------------------------------------------------------- constants
\* timedelta(days=1), in seconds
DaySecs == 86400
\* the local zone's offset from UTC in ticks (datetime.now() is naive local time)
LocalOffset == 3600 * TicksPerSec
\* the wall clock of the first state: one tick before 1900-01-04T00:00:01Z
StartClock == 3 * DaySecs * TicksPerSec + (TicksPerSec - 1)
\* the page loop is followed up to this page number
MaxPage == MaxPages + 1
\* submitter identities
Logins == {"a", "b"}

\* the timeout budgets of the retry loop
Budgets == <<8, 16, 32, 128>>
\* statuses the if/elif chain raises RuntimeError for
TerminalStatuses == {304, 403, 422, 503}
\* statuses the API is taken to answer with
Statuses == {200, 304, 403, 422, 503, 500, 404}

\* ------------------------------------------------------------ time format
\* datetime.now(): a naive datetime holding the local wall clock
Now(clk) == [wall |-> clk + LocalOffset, aware |-> FALSE]
\* datetime(year=1900, month=1, day=1, tzinfo=timezone.utc)
Sentinel1900 == [wall |-> 0, aware |-> TRUE]
\* date - timedelta(days=1)
MinusOneDay(date) == [date EXCEPT !.wall = @ - DaySecs * TicksPerSec]
\* date.astimezone(timezone.utc): a naive value is read as local time
AsUtc(date) == IF date.aware THEN date.wall ELSE date.wall - LocalOffset
\* format_datetime: UTC, second precision, the fraction dropped
format_datetime(date) == AsUtc(date) \div TicksPerSec

\* ------------------------------------------------------------------ files
\* what yaml.safe_load returns / yaml.dump takes
Dict(cf, ct) == [tag |-> "dict", created_from |-> cf, created_to |-> ct]
None == [tag |-> "none", created_from |-> 0, created_to |-> 0]
\* a mapping that lacks last_queried.created_to
ShortDict == [tag |-> "short", created_from |-> 0, created_to |-> 0]

\* a file: absent, or the text yaml.dump writes, cut at some point:
\*   "empty" no byte, "torn" a prefix that does not parse, "short" a prefix
\*   that parses but lacks a key, "full" the whole text
AbsentFile == [stage |-> "absent", created_from |-> 0, created_to |-> 0]
FullFile(d) == [stage |-> "full", created_from |-> d.created_from, created_to |-> d.created_to]
CutFile(st) == [stage |-> st, created_from |-> 0, created_to |-> 0]
\* the contents a write of dict d can leave behind when it is interrupted
Interrupted(d) == {CutFile("empty"), CutFile("torn"), CutFile("short"), FullFile(d)}
\* yaml.safe_load of a file that parses
safe_load(f) ==
    CASE f.stage = "full" -> Dict(f.created_from, f.created_to)
      [] f.stage = "short" -> ShortDict
      [] OTHER -> None
\* the file holds a complete checkpoint
IsCheckpoint(f) == f.stage = "full"

\* ------------------------------------------------------------ the API
RECURSIVE SeqsUpTo(_, _)
SeqsUpTo(S, n) ==
    IF n = 0 THEN {<<>>}
    ELSE LET shorter == SeqsUpTo(S, n - 1)
         IN shorter \cup {Append(s, x) : s \in {t \in shorter : Len(t) = n - 1}, x \in S}
\* the item lists of one page (each item is its user's login)
PageItems == SeqsUpTo(Logins, MaxItems)
\* the result sets the API may hold for a query
NoResultSet == [total_count |-> 0, pages |-> <<>>]
\* the body of a 200 response for page p
Body(rs, p) ==
    [has |-> TRUE,
     total_count |-> rs.total_count,
     items |-> IF p <= Len(rs.pages) THEN rs.pages[p] ELSE <<>>]
NoBody == [has |-> FALSE, total_count |-> 0, items |-> <<>>]

RECURSIVE SumLen(_)
SumLen(ps) == IF ps = <<>> THEN 0 ELSE Len(Head(ps)) + SumLen(Tail(ps))
Range(s) == {s[i] : i \in 1 .. Len(s)}
RECURSIVE LoginsOf(_)
LoginsOf(ps) == IF ps = <<>> THEN {} ELSE Range(Head(ps)) \cup LoginsOf(Tail(ps))

\* the result sets the API may hold for a query: one page or more, and a
\* total_count that is the number of items, or less, or more
ResultSets ==
    UNION {{[total_count |-> t, pages |-> ps] : t \in 0 .. SumLen(ps) + 1} :
             ps \in {qs \in SeqsUpTo(PageItems, MaxPages) : Len(qs) >= 1}}
\* those of one submitter, whatever total_count they report
SameUserResultSets == {rs \in ResultSets : LoginsOf(rs.pages) \subseteq {"a"}}
\* those of one submitter whose total_count is right
PlainResultSets ==
    {rs \in ResultSets : rs.total_count = SumLen(rs.pages) /\ LoginsOf(rs.pages) \subseteq {"a"}}

\* ------------------------------------------------------------------ state
VARIABLES
    pc,                 \* where the process is
    clock,              \* the wall clock, in ticks
    file, backup,       \* the checkpoint file and <name>.backup
    committed,          \* whether a commit went through, whether one was begun since,
                        \* and, if none was, what the last one loaded and wrote
    api,                \* the result set the API holds for the run's query
    config, new_config, \* main's argument and its deep copy
    search_query_params,\* the created: range and the page parameter
    page, total_count, count_so_far, set_of_users,
    tries,              \* iterations of the for loop started for this page
    timeout,            \* the budget of the latest attempt
    warnings,           \* warning/error log lines of this page's retries
    sent,               \* session.get calls of this run, tallied under SpecCounted
    response,           \* the outcome of the latest session.get
    search_results,     \* the parsed body, or None
    stdout,             \* what print() has put out
    error               \* the exception that ended the process

vars == <<pc, clock, file, backup, committed, api, config, new_config, search_query_params,
          page, total_count, count_so_far, set_of_users, tries, timeout, warnings,
          sent, response, search_results, stdout, error>>

files == <<file, backup>>
locals == <<config, new_config, search_query_params, page, total_count, count_so_far,
            set_of_users, tries, timeout, warnings, sent, response, search_results>>
loopvars == <<page, total_count, count_so_far, set_of_users, tries, timeout, warnings,
              sent, response, search_results>>

NoParams == [from |-> 0, to |-> 0, page |-> 0]
NoResponse == [kind |-> "none", status |-> 0]
NoError == [kind |-> "none", status |-> 0]
NoOutput == [printed |-> FALSE, users |-> {}]

\* a fresh process: nothing loaded, nothing fetched
FreshLocals ==
    /\ config = None /\ new_config = None
    /\ search_query_params = NoParams
    /\ page = 0 /\ total_count = 0 /\ count_so_far = 0 /\ set_of_users = {}
    /\ tries = 0 /\ timeout = 0 /\ warnings = 0 /\ sent = 0
    /\ response = NoResponse /\ search_results = NoBody

\* no commit has gone through on these files, none is under way
NoCommit == [has |-> FALSE, pending |-> FALSE, consumed |-> None, produced |-> None]
\* a commit is begun: the files are no longer the ones the last commit left
Begun(c) == [has |-> c.has, pending |-> TRUE, consumed |-> None, produced |-> None]

Init ==
    /\ pc = "load"
    /\ clock = StartClock
    /\ file \in {AbsentFile,
                 FullFile(Dict(format_datetime(Sentinel1900),
                               format_datetime(Now(StartClock)) - 1)),
                 CutFile("torn")}
    /\ backup = AbsentFile
    /\ committed = NoCommit
    /\ api = NoResultSet
    /\ FreshLocals
    /\ stdout = NoOutput
    /\ error = NoError

\* the exception is caught and logged, and the process goes on to the commit
RaiseLogged(kind, status) ==
    /\ pc' = "copy"
    /\ error' = [kind |-> kind, status |-> status]

\* an uncaught exception ends the process
Raise(kind, status) ==
    /\ pc' = "failed"
    /\ error' = [kind |-> kind, status |-> status]

\* main has ended: the API's result set for its query plays no part any more
QueryOver == api' = NoResultSet

\* the wall clock datetime.now() reads moves by d ticks: on with the time
\* that passes, or back when the system clock is set back
Elapse(d) ==
    /\ StartClock <= clock + d
    /\ clock + d <= StartClock + MaxElapsed
    /\ clock' = clock + d

\* ------------------------------------------------------------ load_config
\* a file that does not parse is replaced by the default in place of raising
LoadExistingLenient ==
    /\ pc = "load"
    /\ file.stage # "absent"
    /\ IF file.stage = "torn"
       THEN /\ config' = Dict(0, 0)
            /\ file' = FullFile(Dict(0, 0))
       ELSE /\ config' = safe_load(file)
            /\ UNCHANGED file
    /\ pc' = "main"
    /\ UNCHANGED <<clock, committed, backup, api, new_config, search_query_params, loopvars, stdout,
                   error>>

\* lines 25-33: the file exists; parse it
LoadExisting ==
    /\ pc = "load"
    /\ file.stage # "absent"
    /\ IF file.stage = "torn"
       THEN Raise("YAMLError", 0) /\ UNCHANGED config
       ELSE /\ config' = safe_load(file)
            /\ pc' = "main"
            /\ UNCHANGED error
    /\ UNCHANGED <<clock, committed, files, api, new_config, search_query_params, loopvars, stdout>>

\* the default that ends now, not a day ago
DefaultConfigNow(clk) ==
    Dict(format_datetime(Sentinel1900), format_datetime(Now(clk)))

\* lines 36-43: the default checkpoint
DefaultConfig(clk) ==
    Dict(format_datetime(Sentinel1900), format_datetime(MinusOneDay(Now(clk))))

\* lines 34-48: the file is absent; write the default and return it
LoadDefault ==
    /\ pc = "load"
    /\ file.stage = "absent"
    /\ file' = FullFile(DefaultConfig(clock))
    /\ config' = DefaultConfig(clock)
    /\ pc' = "main"
    /\ UNCHANGED <<clock, committed, backup, api, new_config, search_query_params, loopvars, stdout, error>>

\* ------------------------------------------------------------------- main
\* line 75 left out: created_from is not moved up
NextConfigKept(cfg, now_timestamp) == Dict(cfg.created_from, now_timestamp)

\* lines 73-75: the checkpoint for the next run
NextConfig(cfg, now_timestamp) == Dict(cfg.created_to, now_timestamp)

\* main without the deep copy of line 52 (new_config = config, or a shallow
\* copy): lines 74-75 then write into the caller's dict, created_to first
MainAliased(resultsets) ==
    /\ pc = "main"
    /\ IF config.tag = "dict"
       THEN /\ LET now_timestamp == format_datetime(Now(clock))
               IN /\ search_query_params' =
                        [from |-> config.created_to, to |-> now_timestamp, page |-> 1]
                  /\ new_config' = Dict(now_timestamp, now_timestamp)
                  /\ config' = Dict(now_timestamp, now_timestamp)
            /\ page' = 1
            /\ total_count' = 0 /\ count_so_far' = 0 /\ set_of_users' = {}
            /\ api' \in resultsets
            /\ pc' = "while"
            /\ UNCHANGED error
       ELSE /\ Raise(IF config.tag = "none" THEN "TypeError" ELSE "KeyError", 0)
            /\ new_config' = config
            /\ UNCHANGED <<search_query_params, page, total_count, count_so_far,
                           set_of_users, api, config>>
    /\ UNCHANGED <<clock, committed, files, tries, timeout, warnings, sent, response,
                   search_results, stdout>>

\* lines 50-82: copy the config, resolve now, build the query, advance the
\* checkpoint, reset the loop variables.  A config that is None or lacks
\* created_to fails at line 67, before any request.
Main(resultsets) ==
    /\ pc = "main"
    /\ IF config.tag = "dict"
       THEN /\ LET now_timestamp == format_datetime(Now(clock))
               IN /\ search_query_params' =
                        [from |-> config.created_to, to |-> now_timestamp, page |-> 1]
                  /\ new_config' = NextConfig(config, now_timestamp)
            /\ page' = 1
            /\ total_count' = 0 /\ count_so_far' = 0 /\ set_of_users' = {}
            /\ api' \in resultsets
            /\ pc' = "while"
            /\ UNCHANGED error
       ELSE /\ Raise(IF config.tag = "none" THEN "TypeError" ELSE "KeyError", 0)
            /\ new_config' = config
            /\ UNCHANGED <<search_query_params, page, total_count, count_so_far,
                           set_of_users, api>>
    /\ UNCHANGED <<clock, committed, files, config, tries, timeout, warnings, sent, response,
                   search_results, stdout>>

\* main, against an API that may hold any result set
MainStart == Main(ResultSets)
\* main, against an API that holds a plain result set
MainStartPlain == Main(PlainResultSets)
\* main, against an API that holds one submitter's items
MainStartSameUser == Main(SameUserResultSets)

\* line 85 left out: the query keeps the page parameter it was built with
BeginPageStale ==
    /\ pc = "while"
    /\ search_results' = NoBody
    /\ tries' = 0 /\ warnings' = 0
    /\ pc' = "for"
    /\ UNCHANGED <<clock, committed, files, api, config, new_config, search_query_params, page,
                   total_count, count_so_far, set_of_users, timeout, sent, response, stdout,
                   error>>

\* the for loop taken up where the last page left it: one budget list per run
BeginPageCarry ==
    /\ pc = "while"
    /\ search_query_params' = [search_query_params EXCEPT !.page = page]
    /\ search_results' = NoBody
    /\ warnings' = 0
    /\ pc' = "for"
    /\ UNCHANGED <<clock, committed, files, api, config, new_config, page, total_count, count_so_far,
                   set_of_users, tries, timeout, sent, response, stdout, error>>

\* lines 85-87: top of the while loop
BeginPage ==
    /\ pc = "while"
    /\ search_query_params' = [search_query_params EXCEPT !.page = page]
    /\ search_results' = NoBody
    /\ tries' = 0 /\ warnings' = 0
    /\ pc' = "for"
    /\ UNCHANGED <<clock, committed, files, api, config, new_config, page, total_count, count_so_far,
                   set_of_users, timeout, sent, response, stdout, error>>

\* what session.get and response.json() can come to
Outcomes ==
    {[kind |-> k, status |-> 0] : k \in {"timeout", "connerr", "reqexc"}}
    \cup {[kind |-> "http", status |-> s] : s \in Statuses}
    \cup {[kind |-> "badjson", status |-> 200]}

\* 503 taken for a passing fault and tried again
HandleRetry503(o) ==
    CASE o.kind = "http" /\ o.status = 200 -> "break"
      [] o.kind = "http" /\ o.status \in TerminalStatuses \ {503} -> "raise"
      [] o.kind \in {"reqexc", "badjson"} -> "raise"
      [] OTHER -> "continue"

\* the break at line 94 left out
HandleNoBreak(o) ==
    CASE o.kind = "http" /\ o.status \in TerminalStatuses -> "raise"
      [] o.kind \in {"reqexc", "badjson"} -> "raise"
      [] OTHER -> "continue"

\* lines 89-111: what one iteration of the for loop does with an outcome:
\* "break", "raise" or "continue" (the end of the loop body included)
Handle(o) ==
    CASE o.kind = "http" /\ o.status = 200 -> "break"
      [] o.kind = "http" /\ o.status \in TerminalStatuses -> "raise"
      [] o.kind \in {"timeout", "connerr"} -> "continue"
      [] o.kind \in {"reqexc", "badjson"} -> "raise"
      [] OTHER -> "continue"

\* the exception lines 96-102 and 109-111 let out
Raised(o) ==
    CASE o.kind = "http" -> [kind |-> "RuntimeError", status |-> o.status]
      [] o.kind = "badjson" -> [kind |-> "JSONDecodeError", status |-> 0]
      [] OTHER -> [kind |-> "RequestException", status |-> 0]

\* lines 88-111: one iteration of the for loop, with the budget of its turn
AttemptOf(counted) ==
    /\ pc = "for"
    /\ tries < Len(Budgets)
    /\ \E o \in Outcomes :
        /\ tries' = tries + 1
        /\ sent' = IF counted THEN sent + 1 ELSE sent
        /\ timeout' = Budgets[tries + 1]
        /\ response' = o
        /\ warnings' = IF o.kind \in {"timeout", "connerr"} THEN warnings + 1 ELSE warnings
        /\ search_results' =
              IF Handle(o) = "break" THEN Body(api, search_query_params.page)
              ELSE search_results
        /\ CASE Handle(o) = "break" -> pc' = "merge" /\ UNCHANGED <<error, api>>
             [] Handle(o) = "raise" -> Raise(Raised(o).kind, Raised(o).status) /\ QueryOver
             [] OTHER -> /\ pc' = IF tries + 1 = Len(Budgets) THEN "merge" ELSE "for"
                         /\ UNCHANGED <<error, api>>
    /\ UNCHANGED <<clock, committed, files, config, new_config, search_query_params, page,
                   total_count, count_so_far, set_of_users, stdout>>

\* the attempt, its request left out of the run's tally
Attempt == AttemptOf(FALSE)
\* the attempt, its request tallied in sent
AttemptCounted == AttemptOf(TRUE)

\* the exit test written with >= for ==
ExhaustedAtLeast(count, total) == count >= total
\* the exit test written with > for ==
ExhaustedStrict(count, total) == count > total
\* the exit test that also wants an item to have come
ExhaustedNonEmpty(count, total) == count = total /\ count > 0

\* line 121: the loop's exit test
Exhausted(count, total) == count = total

\* symmetric_difference_update in place of update
UpdateToggle(users, items) == (users \ Range(items)) \cup (Range(items) \ users)

\* the set assigned from the page in place of updated
UpdateReplace(users, items) == Range(items)

\* line 114: merge the page's logins into the set
Update(users, items) == users \cup Range(items)

\* lines 113-124: take the page in, test for the end, go to the next page.
\* The clock is read at line 64 and never again in main, so the time the
\* attempts for the page took is added here, where the for loop is left.
Merge ==
    /\ pc = "merge"
    /\ \E d \in 0 .. 1 : Elapse(d)
    /\ IF ~search_results.has
       THEN /\ Raise("TypeError", 0)
            /\ QueryOver
            /\ UNCHANGED <<total_count, set_of_users, count_so_far, page>>
       ELSE /\ total_count' = search_results.total_count
            /\ set_of_users' = Update(set_of_users, search_results.items)
            /\ count_so_far' = count_so_far + Len(search_results.items)
            /\ IF Exhausted(count_so_far', total_count')
               THEN pc' = "print" /\ UNCHANGED page
               ELSE /\ page < MaxPage
                    /\ page' = page + 1
                    /\ pc' = "while"
            /\ UNCHANGED <<error, api>>
    /\ UNCHANGED <<files, committed, config, new_config, search_query_params, tries,
                   timeout, warnings, sent, response, search_results, stdout>>

\* lines 127-128: print the set and return new_config
Return ==
    /\ pc = "print"
    /\ stdout' = [printed |-> TRUE, users |-> set_of_users]
    /\ pc' = "copy"
    /\ QueryOver
    /\ UNCHANGED <<clock, committed, files, locals, error>>

\* --------------------------------------------------------------- __main__
\* the commit without its backup step
CopySkipped ==
    /\ pc = "copy"
    /\ committed' = Begun(committed)
    /\ pc' = "open"
    /\ UNCHANGED <<clock, files, api, locals, stdout, error>>

\* the backup written from what main returned, not copied from the file
CopyReturned ==
    /\ pc = "copy"
    /\ backup' = FullFile(new_config)
    /\ committed' = Begun(committed)
    /\ pc' = "open"
    /\ UNCHANGED <<clock, file, api, locals, stdout, error>>

\* lines 140-144: shutil.copy2(config_path, config_backup_path)
Copy ==
    /\ pc = "copy"
    /\ backup' = file
    /\ committed' = Begun(committed)
    /\ pc' = "open"
    /\ UNCHANGED <<clock, file, api, locals, stdout, error>>

\* line 146: open(config_path, "w") truncates the file
Open ==
    /\ pc = "open"
    /\ file' = CutFile("empty")
    /\ pc' = "dump"
    /\ UNCHANGED <<clock, committed, backup, api, locals, stdout, error>>

\* a commit went through: the run loaded `consumed` and wrote `produced`
Committed(consumed, produced) ==
    [has |-> TRUE, pending |-> FALSE, consumed |-> consumed, produced |-> produced]

\* the commit that dumps config, the checkpoint it loaded
DumpStale ==
    /\ pc = "dump"
    /\ file' = FullFile(config)
    /\ committed' = Committed(config, new_config)
    /\ pc' = "done"
    /\ UNCHANGED <<clock, backup, api, locals, stdout, error>>

\* line 147: yaml.dump(new_config, f), and the file is closed
Dump ==
    /\ pc = "dump"
    /\ file' = FullFile(new_config)
    /\ committed' = Committed(config, new_config)
    /\ pc' = "done"
    /\ UNCHANGED <<clock, backup, api, locals, stdout, error>>

\* the process is killed while it writes a file: the file it writes is left
\* at any point of the write (a kill anywhere else changes no file)
Crash ==
    /\ \/ /\ pc = "load" /\ file.stage = "absent"
          /\ file' \in Interrupted(DefaultConfig(clock))
          /\ UNCHANGED backup
       \/ /\ pc = "copy"
          /\ backup' \in Interrupted(safe_load(file))
          /\ UNCHANGED file
       \/ /\ pc = "dump"
          /\ file' \in Interrupted(new_config)
          /\ UNCHANGED backup
    /\ committed' = IF pc = "load" THEN committed ELSE Begun(committed)
    /\ pc' = "crashed"
    /\ UNCHANGED <<clock, api, locals, stdout, error>>

\* the process has ended; the next run starts on the same files, later, and
\* the wall clock (not a monotonic one) may have been set back in between
Restart ==
    /\ pc \in {"done", "failed", "crashed"}
    /\ \E d \in -1 .. 1 : Elapse(d)
    /\ pc' = "load"
    /\ UNCHANGED api
    /\ config' = None /\ new_config' = None
    /\ search_query_params' = NoParams
    /\ page' = 0 /\ total_count' = 0 /\ count_so_far' = 0 /\ set_of_users' = {}
    /\ tries' = 0 /\ timeout' = 0 /\ warnings' = 0 /\ sent' = 0
    /\ response' = NoResponse /\ search_results' = NoBody
    /\ stdout' = NoOutput
    /\ error' = NoError
    /\ UNCHANGED <<files, committed>>

Next ==
    \/ LoadExisting
    \/ LoadDefault
    \/ MainStart
    \/ BeginPage
    \/ Attempt
    \/ Merge
    \/ Return
    \/ Copy
    \/ Open
    \/ Dump
    \/ Crash

\* one process run
Spec == Init /\ [][Next]_vars

NextFair ==
    \/ LoadExisting
    \/ LoadDefault
    \/ MainStartSameUser
    \/ BeginPage
    \/ Attempt
    \/ Merge
    \/ Return
    \/ Copy
    \/ Open
    \/ Dump
    \/ Crash

\* one process run that goes on as long as it has a step to take: the
\* interpreter runs the next statement and every request has a timeout
SpecFair == Init /\ [][NextFair]_vars /\ WF_vars(NextFair)

NextRuns ==
    \/ LoadExisting
    \/ LoadDefault
    \/ MainStartPlain
    \/ BeginPage
    \/ Attempt
    \/ Merge
    \/ Return
    \/ Copy
    \/ Open
    \/ Dump
    \/ Crash
    \/ Restart

\* process runs one after the other on the same files
SpecRuns == Init /\ [][NextRuns]_vars

NextCounted ==
    \/ LoadExisting
    \/ LoadDefault
    \/ MainStartPlain
    \/ BeginPage
    \/ AttemptCounted
    \/ Merge
    \/ Return
    \/ Copy
    \/ Open
    \/ Dump
    \/ Crash

\* one process run with the requests it sends tallied
SpecCounted == Init /\ [][NextCounted]_vars

\* ================================================================ claims
\* the process is inside main, before it returns
InMain == pc \in {"main", "while", "for", "merge", "print"}
\* the step is main's lines 50-82 going through
Windowed == pc = "main" /\ pc' = "while"

\* C1: a successful run returns a checkpoint whose created_from is the input's
\* created_to and whose created_to is the UTC second of the clock when main
\* resolved now (line 64), whatever time has passed when it returns.
\* Stated on the steps: the step that builds the window sets new_config to
\* exactly that, no later step of main changes new_config or config, and
\* Return hands it on unchanged.
ThmC1 ==
    [][ /\ Windowed =>
            /\ new_config'.created_from = config.created_to
            /\ new_config'.created_to * TicksPerSec <= clock
            /\ clock < (new_config'.created_to + 1) * TicksPerSec
        /\ (InMain /\ pc # "main" /\ pc' # "failed") =>
            /\ new_config' = new_config
            /\ config' = config
      ]_vars

\* C1's case: main has returned after the clock moved into a later second
WitC1 ==
    /\ pc = "copy"
    /\ stdout.printed
    /\ new_config.created_from = config.created_to
    /\ format_datetime(Now(clock)) > new_config.created_to

\* C2: over runs on the same files the windows of the successful runs tile:
\* a run's window and its new created_from start at the created_to the file
\* holds, a completed commit writes exactly the run's window into the file,
\* and nothing but the first-use default and a commit ever changes the file.
ThmC2 ==
    [][ /\ Windowed =>
            /\ IsCheckpoint(file)
            /\ search_query_params'.from = file.created_to
            /\ new_config'.created_from = file.created_to
        /\ (pc = "dump" /\ pc' = "done") =>
            /\ IsCheckpoint(file')
            /\ file'.created_from = search_query_params.from
            /\ file'.created_to = search_query_params.to
        /\ file' # file =>
            \/ pc = "load" /\ file.stage = "absent"
            \/ pc \in {"open", "dump"} /\ stdout.printed
      ]_vars

\* C2's case: a second commit is done; the backup is what an earlier
\* successful run wrote and the file starts where that one ended
WitC2 ==
    /\ pc = "done"
    /\ IsCheckpoint(backup)
    /\ backup.created_from # format_datetime(Sentinel1900)
    /\ IsCheckpoint(file)
    /\ file.created_from = backup.created_to

InCommit ==
    \/ pc \in {"copy", "open", "dump", "done"}
    \/ pc = "crashed" /\ stdout.printed

\* C4: the backup is a full copy before the file is opened for writing, so at
\* every point of the commit, a kill included, the file or the backup holds a
\* complete last-known-good checkpoint: the one the run loaded, or the new one
\* once it is fully written.
ThmC4 ==
    /\ pc \in {"open", "dump"} => backup = FullFile(config)
    /\ InCommit =>
        \/ file = FullFile(config)
        \/ backup = FullFile(config)
        \/ file = FullFile(new_config)

\* C4's case: the process was killed in the middle of the write; the file is
\* cut and the backup holds the checkpoint
WitC4 ==
    /\ pc = "crashed"
    /\ stdout.printed
    /\ ~IsCheckpoint(file)
    /\ backup = FullFile(config)

\* every attempt made for the current page ended in a timeout or a
\* connection failure, and all budgets are used up
AllBudgetsTimedOut == tries = Len(Budgets) /\ warnings = Len(Budgets)

\* C5: when all 4 attempts for a page end in a timeout or a connection
\* failure, the run fails after exactly those 4 attempts with a
\* Timeout/Unreachable error of its own, not by taking in a result for the page.
CexC5 ==
    (pc = "failed" /\ AllBudgetsTimedOut) => error.kind = "Timeout"

\* C6: a response with status 304, 403, 422 or 503 ends the run at once with
\* an error that carries the status: whenever the latest response has such a
\* status the process has failed with that status, so no attempt and no page
\* follows it.
ThmC6 ==
    (response.kind = "http" /\ response.status \in TerminalStatuses) =>
        /\ pc = "failed"
        /\ error = [kind |-> "RuntimeError", status |-> response.status]

\* C6's case: 403 on the first attempt of the first page, no retry made
WitC6 ==
    /\ pc = "failed"
    /\ page = 1 /\ tries = 1
    /\ response = [kind |-> "http", status |-> 403]
    /\ error = [kind |-> "RuntimeError", status |-> 403]

\* C7: a response with any other non-200 status (500, 404) ends the run at
\* once with an Unexpected Response error; it is not retried.
CexC7 ==
    (response.kind = "http" /\ response.status \notin TerminalStatuses \cup {200}) =>
        /\ pc = "failed"
        /\ error.kind = "UnexpectedResponse"

\* the items on pages 1..k of a result set (pages past its last are empty)
Upto(rs, k) == SubSeq(rs.pages, 1, IF k <= Len(rs.pages) THEN k ELSE Len(rs.pages))
\* the result set has a page and its total_count is the number of its items
Tallies(rs) == Len(rs.pages) >= 1 /\ rs.total_count = SumLen(rs.pages)
\* the first page at which the items received add up to total_count
FirstFull(rs) ==
    CHOOSE k \in 1 .. Len(rs.pages) :
        /\ SumLen(Upto(rs, k)) = rs.total_count
        /\ \A j \in 1 .. k - 1 : SumLen(Upto(rs, j)) # rs.total_count

\* C8 as stated: over N pages whose item counts add up to total_count the
\* loop ends after exactly N page fetches, empty pages or not.
CexC8 ==
    (pc = "print" /\ Tallies(api)) => page = Len(api.pages)

\* C8 as amended: over N pages whose item counts add up to total_count the
\* loop fetches pages 1..k and ends, k being the first page at which the count
\* received equals total_count; k = N when the last page holds an item or N = 1.
ThmC8 ==
    Tallies(api) =>
        /\ pc \in {"while", "for", "merge"} => page <= FirstFull(api)
        /\ pc = "print" =>
            /\ page = FirstFull(api)
            /\ count_so_far = api.total_count
            /\ (Len(api.pages) = 1 \/ api.pages[Len(api.pages)] # <<>>) =>
                    page = Len(api.pages)

\* C8's case: two pages, the first one empty, both fetched, the loop left
WitC8 ==
    /\ pc = "print"
    /\ Tallies(api)
    /\ Len(api.pages) = 2
    /\ api.pages[1] = <<>>
    /\ page = 2

NothingFound == Len(api.pages) >= 1 /\ api.pages[1] = <<>> /\ api.total_count = 0

\* C10: when the first page reports total_count 0 and no items, the run
\* asks for page 1 only, ends well with the empty user set and returns the
\* advanced checkpoint.
ThmC10 ==
    [][ NothingFound =>
            /\ page' = 1
            /\ (pc = "merge" /\ search_results.has) => pc' = "print"
            /\ pc = "print" =>
                /\ pc' = "copy"
                /\ stdout' = [printed |-> TRUE, users |-> {}]
                /\ new_config' = Dict(config.created_to, search_query_params.to)
      ]_vars

\* C10's case: main has returned from a query that found nothing
WitC10 ==
    /\ pc = "copy"
    /\ stdout = [printed |-> TRUE, users |-> {}]
    /\ page = 1 /\ total_count = 0 /\ count_so_far = 0
    /\ search_results.has
    /\ new_config.created_from = config.created_to

\* a checkpoint is in order
Ordered(c) == c.created_from <= c.created_to

\* C11: every checkpoint there is has created_from <= created_to: the
\* default of the first use, every checkpoint main returns and every
\* checkpoint written to the file or copied to the backup, after any runs at
\* any call times.
CexC11 ==
    /\ IsCheckpoint(file) => Ordered(file)
    /\ IsCheckpoint(backup) => Ordered(backup)
    /\ config.tag = "dict" => Ordered(config)
    /\ new_config.tag = "dict" => Ordered(new_config)

\* C12: a checkpoint file that exists and does not parse makes the process
\* fail with the YAML error before any request is made, and neither the file
\* nor the backup is written: while the file is such, the only steps are the
\* load that raises and the start of the next process, no attempt is made and
\* both files stay as they are.
ThmC12 ==
    [][ file.stage = "torn" =>
            /\ pc = "load" => pc' = "failed" /\ error' = [kind |-> "YAMLError", status |-> 0]
            /\ pc' \in {"load", "failed"}
            /\ tries' = 0 /\ response' = NoResponse
            /\ file' = file /\ backup' = backup
      ]_vars

\* C12's case: the load of a file that does not parse has raised
WitC12 ==
    /\ pc = "failed"
    /\ file.stage = "torn"
    /\ error.kind = "YAMLError"
    /\ tries = 0 /\ response = NoResponse

\* the latest response is a 200
GotPage == response.kind = "http" /\ response.status = 200

\* C13: the attempts for a page use the budgets 8, 16, 32, 128 in that
\* order, one attempt each, and stop at the first 200: the k-th attempt of a
\* page has the k-th budget, there are at most four, and no attempt is made
\* on a page after one of its attempts got a 200.
ThmC13 ==
    [][ /\ tries' # tries =>
            \/ tries' = 0
            \/ /\ pc = "for"
               /\ tries' = tries + 1
               /\ tries' <= 4
               /\ timeout' = <<8, 16, 32, 128>>[tries']
               /\ tries > 0 => ~GotPage
        /\ (pc = "for" /\ tries' = tries + 1 /\ response'.kind = "http"
                /\ response'.status = 200) => pc' = "merge"
      ]_vars

\* C13's case: two attempts failed in passing, the third, with 32 s, got the page
WitC13 ==
    /\ pc = "merge"
    /\ tries = 3 /\ warnings = 2 /\ timeout = 32
    /\ GotPage
    /\ search_results.has

\* C14: pages are asked for in the order 1, 2, 3, ...: every attempt,
\* retries included, carries the current page number; the first page is 1;
\* and the page number goes up, by one, only on the step that took in a
\* fetched page and found the count short of total_count.
ThmC14 ==
    [][ /\ (pc = "for" /\ tries' = tries + 1) =>
            /\ search_query_params.page = page
            /\ search_query_params' = search_query_params
            /\ page' = page
        /\ Windowed => page' = 1
        /\ (page' # page /\ page # 0 /\ page' # 0) =>
            /\ pc = "merge" /\ pc' = "while"
            /\ search_results.has
            /\ search_results.items = Body(api, page).items
            /\ page' = page + 1
            /\ count_so_far' # total_count'
      ]_vars

\* C14's case: a retry on page 2, asked for as page 2
WitC14 ==
    /\ pc = "for"
    /\ page = 2 /\ tries = 2
    /\ search_query_params.page = 2

\* C15: with no checkpoint file, load_config writes one whose created_from
\* is 1900-01-01T00:00:00Z (second 0) and whose created_to is the UTC second
\* one day before the call, before any request is made; the run that
\* follows starts its window there and returns created_from equal to it.
ThmC15 ==
    [][ /\ (pc = "load" /\ file.stage = "absent" /\ pc' = "main") =>
            /\ file' = FullFile(config')
            /\ config'.tag = "dict"
            /\ config'.created_from = 0
            /\ (config'.created_to + DaySecs) * TicksPerSec <= clock
            /\ clock < (config'.created_to + DaySecs + 1) * TicksPerSec
            /\ tries' = 0 /\ response' = NoResponse
        /\ Windowed =>
            /\ file = FullFile(config)
            /\ search_query_params'.from = file.created_to
            /\ new_config'.created_from = file.created_to
      ]_vars

\* C15's case: the first run on a file load_config has just made (the
\* window is one day long) has returned
WitC15 ==
    /\ pc = "copy"
    /\ stdout.printed
    /\ backup = AbsentFile
    /\ file = FullFile(config)
    /\ config.created_from = 0
    /\ config.created_to + DaySecs = search_query_params.to
    /\ search_query_params.from = config.created_to
    /\ new_config.created_from = config.created_to

\* C16: main does not change the checkpoint it is given: no step of main,
\* the raising ones included, changes config, so when main has returned or
\* failed config is still what load_config read from the file; what main hands
\* back is new_config, a value of its own.
ThmC16 ==
    [][ /\ InMain => config' = config
        /\ (InMain /\ pc # "main") => search_query_params.from = config.created_to
        /\ (pc' \in {"copy", "failed"} /\ IsCheckpoint(file')) => config' = safe_load(file')
      ]_vars

\* C16's case: main has returned a checkpoint that differs from its input,
\* and the input is as it was loaded
WitC16 ==
    /\ pc = "copy"
    /\ stdout.printed
    /\ config = safe_load(file)
    /\ new_config # config
    /\ new_config.created_from = config.created_to

\* C17: within a run the aggregate only grows: no step of the page loop
\* lowers count_so_far or takes a login out of set_of_users, and only the
\* step that takes a fetched page in changes them; attempts, failed or
\* retried, and the step that raises leave both as they are.
ThmC17 ==
    [][ /\ pc \in {"while", "for", "merge"} =>
            /\ count_so_far' >= count_so_far
            /\ set_of_users \subseteq set_of_users'
        /\ (pc \in {"while", "for"} \/ (pc = "merge" /\ ~search_results.has)) =>
            /\ count_so_far' = count_so_far
            /\ set_of_users' = set_of_users
      ]_vars

\* C17's case: page 2 added a second item and a second login
WitC17 ==
    /\ pc = "print"
    /\ page = 2
    /\ count_so_far = 2
    /\ Cardinality(set_of_users) = 2

\* C18: the retry budget is per page: each page's for loop starts over at the
\* first budget, 8 seconds, whatever the pages before it used up, and takes at
\* most 4 attempts; so a run that comes to print its result after fetching
\* `page` pages has sent at least `page` and at most 4 * `page` requests.
ThmC18 ==
    [][ /\ (pc = "while" /\ pc' = "for") => tries' = 0
        /\ (pc = "for" /\ pc' # "for") => (1 <= tries' /\ tries' <= 4)
        /\ (pc = "for" /\ tries = 0) => timeout' = 8
        /\ (pc = "for" /\ sent' # sent) => (sent' = sent + 1 /\ tries' = tries + 1)
        /\ pc' = "print" => (page' <= sent' /\ sent' <= 4 * page')
      ]_vars
\* two pages fetched, each on its fourth attempt
WitC18 == pc = "print" /\ page = 2 /\ sent = 8 /\ tries = 4

Fetched(rs, p) == \A q \in 1 .. p - 1 : SumLen(Upto(rs, q)) # rs.total_count
\* the API serves the query in order: the items on the pages asked for never
\* add up to more than total_count, and a page asked for while they are
\* fewer has an item
WellFed(rs) ==
    \A p \in 1 .. Len(rs.pages) + 1 :
        Fetched(rs, p) =>
            /\ SumLen(Upto(rs, p)) <= rs.total_count
            /\ SumLen(Upto(rs, p - 1)) < rs.total_count =>
                    (p <= Len(rs.pages) /\ rs.pages[p] # <<>>)

\* a step leaves the loop for the print only with the counts equal, and goes
\* on to the next page whenever a merged page leaves them apart
ExitsOnTotal ==
    /\ (pc # "print" /\ pc' = "print") =>
        /\ pc = "merge" /\ search_results.has
        /\ count_so_far' = search_results.total_count
        /\ total_count' = search_results.total_count
    /\ (pc = "merge" /\ search_results.has /\ pc' # "print") =>
        /\ count_so_far' # search_results.total_count
        /\ pc' = "while" /\ page' = page + 1

\* C20: the while loop is left for the print only when count_so_far equals
\* the total_count of the page just merged; a merged page that leaves them
\* apart always leads to the next page, empty or not, whatever its number;
\* and a run that goes on stepping ends, well or not, once main is in the
\* loop on a result set the API serves in order.
ThmC20 ==
    /\ [][ExitsOnTotal]_vars
    /\ (pc = "while" /\ WellFed(api)) ~> (pc \in {"done", "failed", "crashed"})
\* C20's case: the loop is left after two pages of a result set served in order
WitC20 ==
    /\ pc = "print"
    /\ WellFed(api)
    /\ page = 2
    /\ count_so_far = api.total_count

TypeOK ==
    /\ pc \in {"load", "main", "while", "for", "merge", "print", "copy", "open", "dump",
               "done", "failed", "crashed"}
    /\ clock \in StartClock .. StartClock + MaxElapsed
    /\ page \in 0 .. MaxPage
    /\ tries \in 0 .. Len(Budgets)
    /\ sent \in 0 .. Len(Budgets) * MaxPage
    /\ set_of_users \subseteq Logins

====
